---- MODULE Spec2Model ----
(***************************************************************************)
(* A model of rucene's FixedBitSet (core/util/bit_set.rs) and of the       *)
(* variable-length integer decoder of DataInput (core/store/data_input.rs).*)
(*                                                                         *)
(* A 64-bit word (i64, or u64) is modelled as the set of its set bit       *)
(* positions, a subset of 0..63: bitwise and/or/xor/not are set            *)
(* intersection/union/symmetric difference/complement, and the shifts move *)
(* the positions.  This keeps the full word width of the program.          *)
(***************************************************************************)
EXTENDS Integers, Sequences, FiniteSets, TLC

VARIABLES
    bits,       \* FixedBitSet.bits: sequence of words, bits[w + 1] is word w
    num_bits,   \* FixedBitSet.num_bits
    num_words,  \* FixedBitSet.num_words
    debug,      \* build profile: TRUE = debug_assertions and overflow checks on
    op,         \* name of the last operation called on the bit set
    outcome,    \* how the last operation ended: "ok", "panic", "IllegalState"
    it_arg,     \* if the last operation was or(): the iterator as handed over
    it_calls,   \* if the last operation was or(): the number of next() calls it made
    ops,        \* number of operations called so far
    stream,     \* decoder: the bytes of the input, a sequence of 0..255
    origin,     \* decoder: what the stream encodes
    res         \* decoder: result of the read, or NoResult

bitset_vars == <<bits, num_bits, num_words, debug, op, outcome, it_arg, it_calls, ops>>
codec_vars == <<stream, origin, res>>
vars == <<bits, num_bits, num_words, debug, op, outcome, it_arg, it_calls, ops,
          stream, origin, res>>

----------------------------------------------------------------------------
(* Bounds of the model *)

\* number of operations called on one bit set
MaxOps == 3
\* number of document ids an iterator yields
MaxIterLen == 2
\* longest run of continuation bytes in a hand-made stream
MaxRun == 10

----------------------------------------------------------------------------
(* Words *)

WordBits == 64

AllOnes == 0..(WordBits - 1)

Not(w) == AllOnes \ w

Xor(a, b) == (a \ b) \cup (b \ a)

\* w << k for 0 <= k < 64
Shl(w, k) == {p + k : p \in {q \in w : q + k < WordBits}}

\* logical w >>> k for 0 <= k < 64 (UnsignedShift::unsigned_shift)
UnsignedShift(w, k) == {p - k : p \in {q \in w : q >= k}}

\* arithmetic w >> k on i64 for 0 <= k < 64: the sign bit is replicated
Sar(w, k) ==
    UnsignedShift(w, k)
        \cup (IF (WordBits - 1) \in w THEN (WordBits - k)..(WordBits - 1) ELSE {})

MinOf(S) == CHOOSE x \in S : \A y \in S : x <= y

\* i64::trailing_zeros / usize::trailing_zeros
TrailingZeros(w) == IF w = {} THEN WordBits ELSE MinOf(w)

\* the word holding a small non-negative integer
RECURSIVE WordOf(_)
WordOf(n) ==
    IF n = 0 THEN {}
    ELSE (IF n % 2 = 1 THEN {0} ELSE {}) \cup Shl(WordOf(n \div 2), 1)

----------------------------------------------------------------------------
(* FixedBitSet: pure parts *)

\* (((num_bits - 1) >> 6) + 1), with >> the arithmetic shift on i32
bits2words(n) == ((n - 1) \div WordBits) + 1

ZeroWords(n) == [w \in 1..n |-> {}]

\* vec.resize(n, 0) for n >= Len(v)
Resize(v, n) == [w \in 1..n |-> IF w <= Len(v) THEN v[w] ELSE {}]

\* "true", "false", or "panic" (shift amount >= 64 with overflow checks on)
verify_ghost_bits_clear(b, nbits, nwords, dbg) ==
    IF \E w \in (nwords + 1)..Len(b) : b[w] # {} THEN "false"
    ELSE IF nbits % WordBits = 0 THEN "true"
    ELSE IF dbg /\ nbits >= WordBits THEN "panic"
    ELSE IF b[nwords] \cap Shl(AllOnes, nbits % WordBits) = {} THEN "true"
    ELSE "false"

\* "ok", "IllegalArgument" or "panic"
copy_from(stored_bits, nbits, dbg) ==
    IF bits2words(nbits) > Len(stored_bits) THEN "IllegalArgument"
    ELSE IF verify_ghost_bits_clear(stored_bits, nbits, bits2words(nbits), dbg) = "true"
         THEN "ok"
         ELSE "panic"

get(b, index) == (index % WordBits) \in b[(index \div WordBits) + 1]

SetBit(b, index) ==
    [b EXCEPT ![(index \div WordBits) + 1] = @ \cup {index % WordBits}]

ClearBit(b, index) ==
    [b EXCEPT ![(index \div WordBits) + 1] = @ \ {index % WordBits}]

\* !((-1i64) << (start_index & 0x3f))
StartMask(start_index) == Not(Shl(AllOnes, start_index % WordBits))

\* (64usize - end_index) & 0x3f, the subtraction wrapping modulo 2^64
EndShift(end_index) == (WordBits - (end_index % WordBits)) % WordBits

\* !((-1i64).unsigned_shift((64usize - end_index) & 0x3f))
EndMask(end_index) == Not(UnsignedShift(AllOnes, EndShift(end_index)))

\* 64usize - end_index overflows usize
EndShiftOverflows(end_index) == end_index > WordBits

ClearRangeWords(b, start_index, end_index) ==
    LET start_word == start_index \div WordBits
        end_word == (end_index - 1) \div WordBits
        start_mask == StartMask(start_index)
        end_mask == EndMask(end_index)
    IN  IF start_word = end_word
        THEN [b EXCEPT ![start_word + 1] = @ \cap (start_mask \cup end_mask)]
        ELSE [w \in 1..Len(b) |->
                IF w = start_word + 1 THEN b[w] \cap start_mask
                ELSE IF w = end_word + 1 THEN b[w] \cap end_mask
                ELSE IF w > start_word + 1 /\ w < end_word + 1 THEN {}
                ELSE b[w]]

FlipWords(b, start_index, end_index) ==
    LET start_word == start_index \div WordBits
        end_word == (end_index - 1) \div WordBits
        start_mask == StartMask(start_index)
        end_mask == EndMask(end_index)
    IN  IF start_word = end_word
        THEN [b EXCEPT ![start_word + 1] = Xor(@, start_mask \cup end_mask)]
        ELSE [w \in 1..Len(b) |->
                IF w = start_word + 1 THEN Xor(b[w], start_mask)
                ELSE IF w = end_word + 1 THEN Xor(b[w], end_mask)
                ELSE IF w > start_word + 1 /\ w < end_word + 1 THEN Not(b[w])
                ELSE b[w]]

RECURSIVE pop_array(_, _, _)
pop_array(b, from, n) ==
    IF n = 0 THEN 0 ELSE Cardinality(b[from + 1]) + pop_array(b, from + 1, n - 1)

cardinality(b, nwords) == pop_array(b, 0, nwords)

NO_MORE_DOCS == 2147483647

next_set_bit(b, nwords, index) ==
    LET i == index \div WordBits
        word == Sar(b[i + 1], index % WordBits)
    IN  IF word # {} THEN index + TrailingZeros(word)
        ELSE LET later == {j \in (i + 1)..(nwords - 1) : b[j + 1] # {}}
             IN  IF later = {} THEN NO_MORE_DOCS
                 ELSE MinOf(later) * WordBits + TrailingZeros(b[MinOf(later) + 1])

----------------------------------------------------------------------------
(* DocIterator, the collaborator of or() *)

\* an iterator: its current doc_id, the ids next() still yields, and whether
\* next() fails instead of returning NO_MORE_DOCS when they run out
Iter(doc, rest, fails) == [doc |-> doc, rest |-> rest, fails |-> fails]

\* a variant that accepts every iterator
assert_unpositioned_unchecked(it) == "ok"

assert_unpositioned(it) == IF it.doc # -1 THEN "IllegalState" ELSE "ok"

\* the loop of or(): the words, the outcome and the number of next() calls
RECURSIVE OrLoop(_, _, _)
OrLoop(b, it, calls) ==
    IF it.rest = <<>>
    THEN [bits |-> b, outcome |-> IF it.fails THEN "Err" ELSE "ok", calls |-> calls + 1]
    ELSE OrLoop(SetBit(b, Head(it.rest)), Iter(Head(it.rest), Tail(it.rest), it.fails),
                calls + 1)

or(b, it) ==
    IF assert_unpositioned(it) # "ok"
    THEN [bits |-> b, outcome |-> "IllegalState", calls |-> 0]
    ELSE OrLoop(b, it, 0)

----------------------------------------------------------------------------
(* DataInput: the variable-length decoders.  A stream is a sequence of bytes  *)
(* 0..255; a decoded i32 or i64 is the set of its set bit positions.  A read  *)
(* returns its status, its value and the number of bytes it consumed.         *)

Result(status, value, consumed) ==
    [status |-> status, value |-> value, consumed |-> consumed]

\* i64::from(b) & 0x7f
Low7(b) == WordOf(b % 128)

\* (b as i8) < 0: the continuation bit, bit 7, is set
HasMore(b) == b >= 128

\* the run of identical steps that opens read_vint and read_vlong_ex: bytes
\* k..last each give (b & 0x7f) << 7 * (k - 1), and a byte b >= 0 returns.
\* "more" when byte `last` still has its continuation bit set.
RECURSIVE ReadGroups(_, _, _, _)
ReadGroups(s, k, last, acc) ==
    IF k > last THEN Result("more", acc, last)
    ELSE IF Len(s) < k THEN Result("UnexpectedEOF", {}, Len(s))
    ELSE LET i == acc \cup Shl(Low7(s[k]), 7 * (k - 1))
         IN  IF ~HasMore(s[k]) THEN Result("ok", i, k)
             ELSE ReadGroups(s, k + 1, last, i)

\* a variant that tests only the continuation bit of the 5th byte
read_vint_checks_bit7(s) ==
    LET g == ReadGroups(s, 1, 4, {})
    IN  IF g.status # "more" THEN g
        ELSE IF Len(s) < 5 THEN Result("UnexpectedEOF", {}, Len(s))
        ELSE IF HasMore(s[5]) THEN Result("IllegalState", {}, 5)
        ELSE Result("ok", g.value \cup Shl(WordOf(s[5] % 16), 28), 5)

read_vint(s) ==
    LET g == ReadGroups(s, 1, 4, {})
    IN  IF g.status # "more" THEN g
        ELSE IF Len(s) < 5 THEN Result("UnexpectedEOF", {}, Len(s))
        ELSE IF s[5] \div 16 # 0 THEN Result("IllegalState", {}, 5)
        ELSE Result("ok", g.value \cup Shl(WordOf(s[5] % 16), 28), 5)

\* a variant that takes the sign byte after eight groups instead of nine
read_vlong_ex_eight_groups(s, negative_allowed) ==
    LET g == ReadGroups(s, 1, 8, {})
    IN  IF g.status # "more" THEN g
        ELSE IF ~negative_allowed THEN Result("IllegalState", {}, 8)
        ELSE IF Len(s) < 9 THEN Result("UnexpectedEOF", {}, Len(s))
        ELSE IF s[9] = 0 \/ s[9] = 1
             THEN Result("ok", g.value \cup Shl(Low7(s[9]), 63), 9)
             ELSE Result("IllegalState", {}, 9)

read_vlong_ex(s, negative_allowed) ==
    LET g == ReadGroups(s, 1, 9, {})
    IN  IF g.status # "more" THEN g
        ELSE IF ~negative_allowed THEN Result("IllegalState", {}, 9)
        ELSE IF Len(s) < 10 THEN Result("UnexpectedEOF", {}, Len(s))
        ELSE IF s[10] = 0 \/ s[10] = 1
             THEN Result("ok", g.value \cup Shl(Low7(s[10]), 63), 10)
             ELSE Result("IllegalState", {}, 10)

\* a variant that passes negative_allowed = true
read_vlong_negative_allowed(s) == read_vlong_ex(s, TRUE)

read_vlong(s) == read_vlong_ex(s, FALSE)

\* ZigZagEncoding::decode on a value of `width` bits: (v >>> 1) ^ -(v & 1)
ZigZagDecode(v, width) ==
    IF 0 \in v THEN (0..(width - 1)) \ UnsignedShift(v, 1) ELSE UnsignedShift(v, 1)

\* ZigZagEncoding::encode on a value of `width` bits: (n << 1) ^ (n >> (width - 1))
ZigZagEncode(n, width) ==
    LET shifted == {p + 1 : p \in {q \in n : q + 1 < width}}
    IN  IF (width - 1) \in n THEN (0..(width - 1)) \ shifted ELSE shifted

Decoded(r, width) ==
    IF r.status = "ok" THEN Result("ok", ZigZagDecode(r.value, width), r.consumed) ELSE r

read_zint(s) == Decoded(read_vint(s), 32)

read_zlong(s) == Decoded(read_vlong_ex(s, TRUE), 64)

\* the byte holding the bits of w below bit 8
RECURSIVE ByteOf(_)
ByteOf(w) ==
    IF w = {} THEN 0
    ELSE LET p == MinOf(w) IN 2 ^ p + ByteOf(w \ {p})

\* the writer's side of the vint/vlong format: base-128 groups, least
\* significant first, bit 7 set on every byte but the last
RECURSIVE EncodeVar(_)
EncodeVar(v) ==
    IF v \subseteq 0..6 THEN <<ByteOf(v)>>
    ELSE <<ByteOf(v \cap 0..6) + 128>> \o EncodeVar(UnsignedShift(v, 7))

----------------------------------------------------------------------------
(* Inputs of the bit set operations *)

\* bit positions passed to the operations: both sides of every word boundary
Positions == {0, 5, 63, 64, 70, 128}

\* sizes passed to new()
NewSizes == {0, 10, 64, 130}

\* capacities passed to ensure_capacity()
Caps == {5, 64, 130}

\* <<stored_bits, num_bits>> passed to copy_from(); the last three are refused
CopyInputs ==
    { <<(<<{0, 5}>>), 10>>,
      <<(<<{0, 5, 63}>>), 64>>,
      <<(<<{}, {}, {}>>), 10>>,
      <<(<<{3}, {1}, {}>>), 70>>,
      <<(<<{0}, {63}, {1}, {}>>), 130>>,
      <<(<<{0, 20}>>), 10>>,
      <<(<<{0}, {}, {7}>>), 70>>,
      <<(<<{0}>>), 70>> }

\* document ids an iterator yields
IterDocs == {5, 63, 64}

RECURSIVE IncreasingSeqs(_, _)
IncreasingSeqs(S, n) ==
    IF n = 0 THEN {<<>>}
    ELSE {<<>>} \cup
         UNION {{<<x>> \o t : t \in {u \in IncreasingSeqs(S, n - 1) :
                                        u = <<>> \/ x < Head(u)}} : x \in S}

\* iterators: unpositioned (-1), positioned, or exhausted
AllIters ==
    {Iter(-1, r, f) : r \in IncreasingSeqs(IterDocs, MaxIterLen), f \in BOOLEAN}
        \cup {Iter(d, r, FALSE) : d \in {0, NO_MORE_DOCS},
                                  r \in IncreasingSeqs(IterDocs, 1)}

\* iterators passed to or() on a set of n bits: every id they yield is below n
Iters(n) == {it \in AllIters : \A k \in 1..Len(it.rest) : it.rest[k] < n}

InRange == Positions \cap 0..(num_bits - 1)

\* <<start_index, end_index>> passed to the range operations on a set of n
\* bits: every non-empty range between two positions, and empty ranges, of
\* which the last two start past the end of the set
RangeArgs(n) ==
    {r \in (Positions \cup {n}) \X (Positions \cup {n}) :
        /\ r[1] <= n /\ r[2] <= n
        /\ r[1] < r[2] \/ r \in {<<0, 0>>, <<5, 0>>, <<70, 64>>, <<n, n>>, <<n, 0>>}}
        \cup {<<n + 1, 0>>, <<n + 1, n + 1>>}

NoIter == [doc |-> "none"]

NoOrigin == [kind |-> "none", n |-> {}]

NoResult == [op |-> "none", status |-> "none", value |-> {}, consumed |-> 0]

----------------------------------------------------------------------------
(* FixedBitSet: construction and operations *)

CodecIdle ==
    /\ stream = <<>>
    /\ origin = NoOrigin
    /\ res = NoResult

\* FixedBitSet::new(n)
New(n) ==
    /\ num_bits = n
    /\ num_words = bits2words(n)
    /\ bits = ZeroWords(bits2words(n))
    /\ op = "new"

\* a successful FixedBitSet::copy_from(stored_bits, n)
CopyFrom(stored_bits, n) ==
    /\ copy_from(stored_bits, n, debug) = "ok"
    /\ num_bits = n
    /\ num_words = bits2words(n)
    /\ bits = stored_bits
    /\ op = "copy_from"

Init ==
    /\ debug \in BOOLEAN
    /\ \/ \E n \in NewSizes : New(n)
       \/ \E c \in CopyInputs : CopyFrom(c[1], c[2])
    /\ outcome = "ok"
    /\ it_arg = NoIter
    /\ it_calls = 0
    /\ ops = 0
    /\ CodecIdle

\* a caller may call an operation: the process has not panicked
Callable == outcome # "panic" /\ ops < MaxOps

Called(name) ==
    /\ op' = name
    /\ ops' = ops + 1
    /\ UNCHANGED <<debug, stream, origin, res>>

\* the last operation was not or(): no iterator was handed over
NoIterator == it_arg' = NoIter /\ it_calls' = 0

Panics == outcome' = "panic" /\ UNCHANGED <<bits, num_bits, num_words>>

\* BitSet::set(index), index < num_bits
Set(index) ==
    /\ Callable
    /\ index \in InRange
    /\ bits' = SetBit(bits, index)
    /\ outcome' = "ok"
    /\ Called("set")
    /\ NoIterator
    /\ UNCHANGED <<num_bits, num_words>>

\* FixedBitSet::clear(index), index < num_bits
Clear(index) ==
    /\ Callable
    /\ index \in InRange
    /\ bits' = ClearBit(bits, index)
    /\ outcome' = "ok"
    /\ Called("clear")
    /\ NoIterator
    /\ UNCHANGED <<num_bits, num_words>>

\* a variant that returns early only for end_index < start_index
ClearRange_strict_less(start_index, end_index) ==
    /\ Callable
    /\ Called("clear_range")
    /\ NoIterator
    /\ IF debug /\ ~(start_index < num_bits /\ end_index <= num_bits)
       THEN Panics
       ELSE IF end_index < start_index
       THEN outcome' = "ok" /\ UNCHANGED <<bits, num_bits, num_words>>
       ELSE IF debug /\ EndShiftOverflows(end_index)
       THEN Panics
       ELSE /\ bits' = ClearRangeWords(bits, start_index, end_index)
            /\ outcome' = "ok"
            /\ UNCHANGED <<num_bits, num_words>>

\* BitSet::clear(start_index, end_index)
ClearRange(start_index, end_index) ==
    /\ Callable
    /\ Called("clear_range")
    /\ NoIterator
    /\ IF debug /\ ~(start_index < num_bits /\ end_index <= num_bits)
       THEN Panics
       ELSE IF end_index <= start_index
       THEN outcome' = "ok" /\ UNCHANGED <<bits, num_bits, num_words>>
       ELSE IF debug /\ EndShiftOverflows(end_index)
       THEN Panics
       ELSE /\ bits' = ClearRangeWords(bits, start_index, end_index)
            /\ outcome' = "ok"
            /\ UNCHANGED <<num_bits, num_words>>

\* FixedBitSet::flip(start_index, end_index)
Flip(start_index, end_index) ==
    /\ Callable
    /\ Called("flip")
    /\ NoIterator
    /\ IF debug /\ ~(start_index < num_bits /\ end_index <= num_bits)
       THEN Panics
       ELSE IF end_index <= start_index
       THEN outcome' = "ok" /\ UNCHANGED <<bits, num_bits, num_words>>
       ELSE IF debug /\ EndShiftOverflows(end_index)
       THEN Panics
       ELSE /\ bits' = FlipWords(bits, start_index, end_index)
            /\ outcome' = "ok"
            /\ UNCHANGED <<num_bits, num_words>>

\* FixedBitSet::ensure_capacity(m)
EnsureCapacity(m) ==
    /\ Callable
    /\ m \in Caps
    /\ Called("ensure_capacity")
    /\ NoIterator
    /\ outcome' = "ok"
    /\ IF m >= num_bits /\ bits2words(m) >= Len(bits)
       THEN /\ bits' = Resize(bits, bits2words(m) + 1)
            /\ num_words' = bits2words(m) + 1
            /\ num_bits' = (bits2words(m) + 1) * WordBits
       ELSE UNCHANGED <<bits, num_bits, num_words>>

\* BitSet::or(iter)
Or(it) ==
    /\ Callable
    /\ Called("or")
    /\ it_arg' = it
    /\ bits' = or(bits, it).bits
    /\ outcome' = or(bits, it).outcome
    /\ it_calls' = or(bits, it).calls
    /\ UNCHANGED <<num_bits, num_words>>

Next ==
    \/ \E i \in Positions : Set(i)
    \/ \E i \in Positions : Clear(i)
    \/ \E r \in RangeArgs(num_bits) : ClearRange(r[1], r[2])
    \/ \E r \in RangeArgs(num_bits) : Flip(r[1], r[2])
    \/ \E m \in Caps : EnsureCapacity(m)
    \/ \E it \in Iters(num_bits) : Or(it)

Spec == Init /\ [][Next]_vars

----------------------------------------------------------------------------
(* DataInput: streams and reads *)

\* signed values of `width` bits: 0, -1, the minimum, the maximum, every
\* single bit, every run of low bits, and the complements of these
Samples(width) ==
    LET top == width - 1
        base == {{k} : k \in 0..top} \cup {0..k : k \in 0..top}
    IN  {{}} \cup base \cup {(0..top) \ v : v \in base}

ContBytes == {128, 255}

FinalBytes == {0, 1, 2, 15, 16, 127}

\* hand-made streams: a run of continuation bytes, then one last byte or the end
RawStreams ==
    {[i \in 1..k |-> c] \o t :
        k \in 0..MaxRun, c \in ContBytes, t \in {<<>>} \cup {<<f>> : f \in FinalBytes}}

\* hand-made streams whose first four bytes continue and differ in their low
\* seven bits, then a 5th byte or the end
MixedStreams ==
    {<<129, 130, 132, 200>> \o t :
        t \in {<<>>} \cup {<<f>> : f \in FinalBytes \cup ContBytes \cup {9, 32, 64}}}

BitSetIdle ==
    /\ debug = FALSE
    /\ New(0)
    /\ outcome = "ok"
    /\ it_arg = NoIter
    /\ it_calls = 0
    /\ ops = 0

CodecInit ==
    /\ BitSetIdle
    /\ res = NoResult
    /\ \/ \E n \in Samples(32) :
            /\ origin = [kind |-> "zint", n |-> n]
            /\ stream = EncodeVar(ZigZagEncode(n, 32))
       \/ \E n \in Samples(64) :
            /\ origin = [kind |-> "zlong", n |-> n]
            /\ stream = EncodeVar(ZigZagEncode(n, 64))
       \/ \E raw \in RawStreams \cup MixedStreams :
            /\ origin = [kind |-> "raw", n |-> {}]
            /\ stream = raw

\* one read from the start of the stream
Read(name, r) ==
    /\ res = NoResult
    /\ res' = [op |-> name, status |-> r.status, value |-> r.value,
               consumed |-> r.consumed]
    /\ UNCHANGED <<stream, origin, bits, num_bits, num_words, debug, op, outcome,
                   it_arg, it_calls, ops>>

ReadVInt == Read("read_vint", read_vint(stream))

ReadZInt == Read("read_zint", read_zint(stream))

ReadVLong == Read("read_vlong", read_vlong(stream))

ReadZLong == Read("read_zlong", read_zlong(stream))

CodecNext == ReadVInt \/ ReadZInt \/ ReadVLong \/ ReadZLong

CodecSpec == CodecInit /\ [][CodecNext]_vars

----------------------------------------------------------------------------
(* FixedBitSet: properties *)

\* the addressable positions that read as set
SetPositions(b, n) == {p \in 0..(n - 1) : get(b, p)}

\* every position of the backing array that holds a one
StoredOnes(b) == UNION {{(w - 1) * WordBits + p : p \in b[w]} : w \in 1..Len(b)}

\* C1: ghost-bit invariant: in every reachable state every bit of the backing
\* array at a position >= num_bits is zero.
GhostBitsClear == \A p \in StoredOnes(bits) : p < num_bits

\* C2: flip(start, end) with start < end <= num_bits, when it returns, has
\* toggled every bit in [start, end) and left every other bit unchanged.
FlipTogglesRange ==
    [][\A r \in RangeArgs(num_bits) :
        (Flip(r[1], r[2]) /\ r[1] < r[2] /\ outcome' = "ok")
            => \A p \in 0..(num_bits - 1) :
                  get(bits', p) = (IF r[1] <= p /\ p < r[2] THEN ~get(bits, p)
                                   ELSE get(bits, p))
      ]_vars

\* C3: in every reachable state cardinality() is the number of indices
\* i in [0, num_bits) with get(i) true.
CardinalityCountsSetBits ==
    cardinality(bits, num_words) = Cardinality(SetPositions(bits, num_bits))

\* C4: in every reachable state, for every index < num_bits, next_set_bit(index)
\* is the smallest set position p with index <= p < num_bits, and NO_MORE_DOCS
\* exactly when there is none.
NextSetBitSmallest ==
    \A index \in 0..(num_bits - 1) :
        LET later == {p \in SetPositions(bits, num_bits) : p >= index}
        IN  next_set_bit(bits, num_words, index)
                = (IF later = {} THEN NO_MORE_DOCS ELSE MinOf(later))

\* C5: the range clear(start, end) with start < end <= num_bits completes, and
\* afterwards get(i) is false in [start, end) and unchanged outside it.
RangeClearClears ==
    [][\A r \in RangeArgs(num_bits) :
        (ClearRange(r[1], r[2]) /\ r[1] < r[2])
            => /\ outcome' = "ok"
               /\ \A p \in 0..(num_bits - 1) :
                     get(bits', p) = (IF r[1] <= p /\ p < r[2] THEN FALSE
                                      ELSE get(bits, p))
      ]_vars

\* C6: ensure_capacity(m) with m < num_bits changes nothing; with m >= num_bits
\* every bit below the old num_bits keeps its value and every bit from the old
\* num_bits up to the new one reads as clear.
EnsureCapacityFrame ==
    [][\A m \in Caps :
        EnsureCapacity(m)
            => IF m < num_bits
               THEN UNCHANGED <<bits, num_bits, num_words>>
               ELSE /\ \A p \in 0..(num_bits - 1) : get(bits', p) = get(bits, p)
                    /\ \A p \in num_bits..(num_bits' - 1) : ~get(bits', p)
      ]_vars

\* C7: after ensure_capacity(m) the logical length num_bits is at least m, and
\* when m is at least the previous num_bits, num_bits and num_words are those
\* of the whole backing array.
EnsureCapacityHolds ==
    [][\A m \in Caps :
        EnsureCapacity(m)
            => /\ num_bits' >= m
               /\ m >= num_bits
                    => num_words' = Len(bits') /\ num_bits' = Len(bits') * WordBits
      ]_vars

\* C8: or(iter) with a positioned iterator returns IllegalState, changes no bit
\* and never calls next(); with an unpositioned one the set afterwards holds
\* exactly its previous bits plus every id the iterator yields.
OrContract ==
    [][op' = "or"
        => IF it_arg'.doc # -1
           THEN outcome' = "IllegalState" /\ bits' = bits /\ it_calls' = 0
           ELSE StoredOnes(bits') =
                    StoredOnes(bits) \cup {it_arg'.rest[k] : k \in 1..Len(it_arg'.rest)}
      ]_vars

\* a positioned iterator was refused by or() on a set that holds bits
OrRefusedPositioned ==
    /\ op = "or"
    /\ outcome = "IllegalState"
    /\ it_calls = 0
    /\ SetPositions(bits, num_bits) # {}

----------------------------------------------------------------------------
(* DataInput: properties *)

\* the first n bytes of the stream exist and all have the continuation bit set
ContinuesThrough(n) == Len(stream) >= n /\ \A k \in 1..n : HasMore(stream[k])

\* C9 as stated: read_vlong accepts encodings of at most 8 bytes: on every
\* stream whose first 8 bytes all have the continuation bit set, so that the
\* value requires the 9th byte the stream goes on with, it fails with
\* IllegalState.
VLongRejectsNinthByte ==
    (res.op = "read_vlong" /\ ContinuesThrough(8) /\ Len(stream) >= 9)
        => res.status = "IllegalState"

\* C9 as amended: read_vlong accepts encodings of at most 9 bytes; on every
\* stream whose first 9 bytes all have the continuation bit set it fails with
\* IllegalState and returns no value.
VLongRejectsTenthByte ==
    res.op = "read_vlong" =>
        /\ res.status = "ok" => res.consumed <= 9
        /\ ContinuesThrough(9) => res.status = "IllegalState" /\ res.value = {}

\* read_vlong refused a stream of nine continuation bytes followed by a byte
VLongRefusedNineContinuations ==
    /\ res.op = "read_vlong"
    /\ ContinuesThrough(9)
    /\ Len(stream) = 10
    /\ res.status = "IllegalState"

\* C10: zig-zag round trip: read_zint over the vint encoding of zigzag(n)
\* returns n for the signed 32-bit n, and read_zlong over the vlong encoding
\* of zigzag(n) returns n for the signed 64-bit n.
ZigZagRoundTrip ==
    /\ (origin.kind = "zint" /\ res.op = "read_zint")
            => res.status = "ok" /\ res.value = origin.n /\ res.consumed = Len(stream)
    /\ (origin.kind = "zlong" /\ res.op = "read_zlong")
            => res.status = "ok" /\ res.value = origin.n /\ res.consumed = Len(stream)

\* read_zlong returned i64::MIN from its ten-byte encoding
ZLongMinRoundTrip ==
    /\ origin = [kind |-> "zlong", n |-> {63}]
    /\ Len(stream) = 10
    /\ res.op = "read_zlong"
    /\ res.status = "ok"
    /\ res.value = {63}

\* bit q of the value laid out in base-128 groups in the stream, least
\* significant group first: bit (q mod 7) of byte (q div 7) + 1
GroupBit(q) == (stream[(q \div 7) + 1] \div (2 ^ (q % 7))) % 2 = 1

\* C11: read_vint consumes at most 5 bytes; when the first four bytes have the
\* continuation bit set, it fails with IllegalState if the 5th byte has any of
\* its top 4 bits set, and otherwise returns the value assembled from the
\* 7/7/7/7/4-bit groups, least significant group first.
VIntFifthByte ==
    res.op = "read_vint" =>
        /\ res.consumed <= 5
        /\ (ContinuesThrough(4) /\ Len(stream) >= 5) =>
              IF stream[5] \div 16 # 0
              THEN res.status = "IllegalState" /\ res.value = {}
              ELSE /\ res.status = "ok"
                   /\ res.consumed = 5
                   /\ res.value = {q \in 0..31 : GroupBit(q)}

\* read_vint refused a 5th byte that has a top bit other than bit 7 set
VIntRefusedFifthByte ==
    /\ res.op = "read_vint"
    /\ ContinuesThrough(4)
    /\ Len(stream) = 5
    /\ stream[5] = 16
    /\ res.status = "IllegalState"

----------------------------------------------------------------------------
(* FixedBitSet: empty ranges *)

\* the empty ranges among the arguments of the range operations
EmptyRanges(n) == {r \in RangeArgs(n) : r[2] <= r[1]}

RangeCall(r) == ClearRange(r[1], r[2]) \/ Flip(r[1], r[2])

\* C12 as stated: clear(start, end) and flip(start, end) with end <= start,
\* whatever start is, also num_bits, and on a set of length 0, complete without an
\* error or assertion failure and leave the words, num_bits and num_words
\* unchanged.
EmptyRangeCompletes ==
    [][(op' \in {"clear_range", "flip"})
        => \A r \in EmptyRanges(num_bits) :
              RangeCall(r)
                  => outcome' = "ok" /\ UNCHANGED <<bits, num_bits, num_words>>
      ]_vars

\* C12 as amended: with end <= start the range operations leave the words,
\* num_bits and num_words unchanged; they complete when start < num_bits, and
\* with start >= num_bits (every call on a set of length 0) exactly in a build
\* without debug assertions: debug_assert!(start_index < num_bits) fails there.
EmptyRangeNoOp ==
    [][(op' \in {"clear_range", "flip"})
        => \A r \in EmptyRanges(num_bits) :
              RangeCall(r)
                  => /\ UNCHANGED <<bits, num_bits, num_words>>
                     /\ outcome' = (IF debug /\ r[1] >= num_bits THEN "panic" ELSE "ok")
      ]_vars

\* flip(0, 0) completed on a set of length 0
EmptyRangeOnEmptySet ==
    /\ num_bits = 0
    /\ op = "flip"
    /\ outcome = "ok"
    /\ bits = <<>>

====
